---- MODULE Spec2Model ----
(***************************************************************************)
(* ZotBag: synchronisation of a Wallabag entry catalog into a Zotero       *)
(* library.  The model follows src/src/modules/wallabagSync.ts (the        *)
(* scheduler, the pass and the update branch),                             *)
(* src/src/modules/zoteroIntegration.ts (the create branch),               *)
(* src/unnamed/part_001 (the Wallabag API client with pagination),         *)
(* src/unnamed/part_003 (the plugin hooks) and src/addon/prefs.js (the     *)
(* preference defaults).                                                   *)
(*                                                                         *)
(* Spec is the scheduler and the reconciliation under a changing          *)
(* catalog, clock and schedule; AttachSpec is the attachment step under    *)
(* changing format preferences and failing exports.                        *)
(*                                                                         *)
(* Strings that the code searches in or edits (the item's "extra" field)   *)
(* are sequences of tokens: the three literal prefixes the code uses, the  *)
(* newline, and single decimal digits.  Substring search, the legacy       *)
(* regular expression and trim are computed on these sequences.            *)
(***************************************************************************)
EXTENDS Integers, Sequences, FiniteSets

\* ---------------------------------------------------------------- bounds
MaxClock == 2
MaxRestarts == 1
MaxSlots == 2
MaxItems == 3
PerPage == 1
MaxRemoteUpdates == 1
MaxFaults == 1

\* ------------------------------------------------------ program constants
MinInterval == 5
DefaultInterval == 60

\* the values typed into the interval field: below the floor and the
\* default
IntervalInputs == {MinInterval - 1, DefaultInterval}

\* the same with a second value that startSync accepts, the floor itself
ScheduleInputs == IntervalInputs \cup {MinInterval}

\* ids of the remote entries; 12 is a decimal prefix of 123
EntryIds == {12, 123}
Versions == {1, 2}

\* ---------------------------------------------------------------- tokens
IdMarker == "Wallabag ID: "
LinkMarker == "Wallabag Link: /view/"
LegacyMarker == "wallabag-id: "
NL == "\n"
DigitChars == <<"0", "1", "2", "3", "4", "5", "6", "7", "8", "9">>
IsDigit(c) == \E k \in 1..10 : DigitChars[k] = c

\* `${entry.id}`: the decimal string of a positive integer
RECURSIVE ToString(_)
ToString(n) ==
    IF n < 10 THEN <<DigitChars[n + 1]>>
    ELSE ToString(n \div 10) \o <<DigitChars[(n % 10) + 1]>>

\* String.prototype.includes
Includes(s, sub) ==
    \E k \in 0..(Len(s) - Len(sub)) : SubSeq(s, k + 1, k + Len(sub)) = sub

\* number of leading digits of s starting at position k
RECURSIVE DigitRun(_, _)
DigitRun(s, k) ==
    IF k <= Len(s) /\ IsDigit(s[k]) THEN 1 + DigitRun(s, k + 1) ELSE 0

\* extra.replace(/wallabag-id: \d+\n?/g, '')
RECURSIVE StripLegacyFrom(_, _)
StripLegacyFrom(s, k) ==
    IF k > Len(s) THEN <<>>
    ELSE IF s[k] = LegacyMarker /\ DigitRun(s, k + 1) > 0
         THEN LET e == k + 1 + DigitRun(s, k + 1)
              IN  IF e <= Len(s) /\ s[e] = NL
                  THEN StripLegacyFrom(s, e + 1)
                  ELSE StripLegacyFrom(s, e)
         ELSE <<s[k]>> \o StripLegacyFrom(s, k + 1)

StripLegacy(s) == StripLegacyFrom(s, 1)

\* String.prototype.trim (the whitespace tokens are the newline and the
\* space)
IsSpace(t) == t \in {NL, " "}

RECURSIVE Trim(_)
Trim(s) ==
    IF s = <<>> THEN s
    ELSE IF IsSpace(Head(s)) THEN Trim(Tail(s))
    ELSE IF IsSpace(s[Len(s)]) THEN Trim(SubSeq(s, 1, Len(s) - 1))
    ELSE s

\* ---------------------------------------------------------- remote entry
\* the fields of an entry are determined by its id and its content version
TitleOf(v) == IF v = 1 THEN "Foo" ELSE ""
UrlOf(v) == IF v = 1 THEN "" ELSE "http://y"
StarredOf(v) == IF v = 1 THEN 1 ELSE 0
TagLabelsOf(id) == IF id = 12 THEN {"x"} ELSE {}

\* published_by: a name, a blank string and a name with spaces around it
\* in the first version, no author in the second
AuthorsOf(v) ==
    IF v = 1 THEN << <<"Ann">>, <<" ">>, <<" ", "Bo", " ">> >> ELSE <<>>

WallabagEntry(id, v) ==
    [id |-> id, title |-> TitleOf(v), url |-> UrlOf(v),
     is_starred |-> StarredOf(v), tags |-> TagLabelsOf(id),
     published_by |-> AuthorsOf(v)]

\* tags added by both branches: the labels, plus Starred when is_starred === 1
EntryTags(entry) ==
    entry.tags \cup (IF entry.is_starred = 1 THEN {"Starred"} ELSE {})

\* ------------------------------------------------------------ local item
\* the creators of an item: the family name at each order index that is
\* set, counted from 0
Creators(names) == [p \in 0..(Len(names) - 1) |-> names[p + 1]]

\* the positions of the authors that pass `author && author.trim()`
NamedAuthors(authors) ==
    {k \in 1..Len(authors) : Trim(authors[k]) # <<>>}

Max(S) == CHOOSE x \in S : \A y \in S : y <= x

\* the create branch: setCreator(0, ...) for every named author
CreatedCreators(authors) ==
    IF NamedAuthors(authors) = {} THEN Creators(<<>>)
    ELSE Creators(<<Trim(authors[Max(NamedAuthors(authors))])>>)

\* the update branch: for a list that is not empty, setCreators([]) and
\* setCreator(i, ...) at the index i the named author has in the list
UpdatedCreators(old, authors) ==
    IF Len(authors) > 0
    THEN [p \in {k - 1 : k \in NamedAuthors(authors)} |-> Trim(authors[p + 1])]
    ELSE old

\* createZoteroItemFromWallabagEntry: the fields of the new webpage item
CreatedItem(entry) ==
    [title |-> entry.title,
     url |-> entry.url,
     shortTitle |-> ToString(entry.id),
     extra |-> ToString(entry.id) \o <<NL, LinkMarker>> \o ToString(entry.id),
     tags |-> EntryTags(entry),
     creators |-> CreatedCreators(entry.published_by),
     collections |-> {},
     attachments |-> <<>>]

\* updateZoteroItem: the extra field after the marker, link and legacy steps
UpdatedExtra(extra, id) ==
    LET withId == IF ~Includes(extra, <<IdMarker>> \o ToString(id))
                  THEN extra \o <<NL, IdMarker>> \o ToString(id)
                  ELSE extra
        withLink == IF ~Includes(withId, <<LinkMarker>> \o ToString(id))
                    THEN withId \o <<NL, LinkMarker>> \o ToString(id)
                    ELSE withId
    IN  Trim(StripLegacy(withLink))

\* an update that copies the entry's title and url even when they are empty
UpdatedItem_CopiesEmpty(item, entry) ==
    [title |-> entry.title,
     url |-> entry.url,
     shortTitle |-> ToString(entry.id),
     extra |-> UpdatedExtra(item.extra, entry.id),
     tags |-> EntryTags(entry),
     creators |-> UpdatedCreators(item.creators, entry.published_by),
     collections |-> item.collections,
     attachments |-> item.attachments]

\* an update that adds the entry's tags to the tags the item has
UpdatedItem_KeepsTags(item, entry) ==
    [title |-> IF entry.title # "" THEN entry.title ELSE item.title,
     url |-> IF entry.url # "" THEN entry.url ELSE item.url,
     shortTitle |-> ToString(entry.id),
     extra |-> UpdatedExtra(item.extra, entry.id),
     tags |-> item.tags \cup EntryTags(entry),
     creators |-> UpdatedCreators(item.creators, entry.published_by),
     collections |-> item.collections,
     attachments |-> item.attachments]

\* updateZoteroItem: the fields of the item after a successful saveTx
UpdatedItem(item, entry) ==
    [title |-> IF entry.title # "" THEN entry.title ELSE item.title,
     url |-> IF entry.url # "" THEN entry.url ELSE item.url,
     shortTitle |-> ToString(entry.id),
     extra |-> UpdatedExtra(item.extra, entry.id),
     tags |-> EntryTags(entry),
     creators |-> UpdatedCreators(item.creators, entry.published_by),
     collections |-> item.collections,
     attachments |-> item.attachments]

\* findExistingZoteroItems: positions of the items whose extra contains
\* the text `Wallabag ID: ${entryId}`, in item order
FindExistingZoteroItems(lib, entryId) ==
    {k \in 1..Len(lib) : Includes(lib[k].extra, <<IdMarker>> \o ToString(entryId))}

Min(S) == CHOOSE x \in S : \A y \in S : x <= y

\* an update of every item the search returns
UpdateTargets_All(found) == found

\* processEntries: the item that is updated is existingItems[0]
UpdateTargets(found) == {Min(found)}

\* items that an earlier version of the plugin left in the library: one
\* with the marker of entry 123, tagged and credited by hand, and one with
\* the legacy line and the marker of entry 12
PriorMarked ==
    [title |-> "Old", url |-> "http://old", shortTitle |-> ToString(123),
     extra |-> <<IdMarker>> \o ToString(123) \o <<NL, LinkMarker>> \o ToString(123),
     tags |-> {"local", "Starred"}, creators |-> Creators(<< <<"Old">> >>),
     collections |-> {}, attachments |-> <<"application/pdf">>]

PriorLegacy ==
    [title |-> "Old", url |-> "http://old", shortTitle |-> <<>>,
     extra |-> <<LegacyMarker>> \o ToString(12) \o <<NL, IdMarker>> \o ToString(12),
     tags |-> {}, creators |-> Creators(<<>>), collections |-> {},
     attachments |-> <<>>]

PriorItems == {PriorMarked, PriorLegacy}

\* the libraries of the initial state; in the last one the text
\* `Wallabag ID: 12` is in the extra of both items
PriorLibraries == {<<>>, <<PriorLegacy>>, <<PriorMarked, PriorLegacy>>}

\* ----------------------------------------------------------- attachments
\* the formats of the create branch, in the order of its loop
FormatOrder == <<"xml", "json", "txt", "csv", "pdf", "epub">>

Formats == {FormatOrder[k] : k \in 1..Len(FormatOrder)}

\* the format preferences that are switched in the runs checked here
ToggledFormats == {"epub"}

ContentTypeOf(format) ==
    CASE format = "xml" -> "application/xml"
      [] format = "json" -> "application/json"
      [] format = "txt" -> "text/plain"
      [] format = "csv" -> "text/csv"
      [] format = "pdf" -> "application/pdf"
      [] format = "epub" -> "application/epub+zip"

InSeq(x, seq) == \E k \in 1..Len(seq) : seq[k] = x

\* createZoteroItemFromWallabagEntry: the formats it tries to attach, given
\* the downloadPdf argument and the wallabag.formats.* preferences
CreateFormats(downloadPdf, enabled) ==
    IF downloadPdf THEN <<"pdf">>
    ELSE SelectSeq(FormatOrder, LAMBDA f : f \in enabled)

\* updateZoteroItem: some attachment has the content type application/pdf.
\* getField("contentType") is taken to give the attachment's content type,
\* and importFromFile without a contentType to record application/pdf for
\* a pdf export
HasPdf(item) == InSeq("application/pdf", item.attachments)

\* an update branch that does not look at the attachments the item has
UpdateFormats_NoSkip(downloadPdf, item) ==
    IF downloadPdf THEN <<"pdf">> ELSE <<>>

\* updateZoteroItem: the formats it tries to attach
UpdateFormats(downloadPdf, item) ==
    IF downloadPdf /\ ~HasPdf(item) THEN <<"pdf">> ELSE <<>>

\* a format loop that gives up at the first format that fails
DownloadsRequested_StopAtFailure(formats, bad) ==
    IF InSeq(bad, formats)
    THEN SubSeq(formats, 1, CHOOSE k \in 1..Len(formats) : formats[k] = bad)
    ELSE formats

\* the export downloads requested for one record when the format bad
\* fails: every format has a try/catch of its own
DownloadsRequested(formats, bad) == formats

\* the content types of the attachments that the requests leave behind
AttachedKinds(requested, bad) ==
    LET got == SelectSeq(requested, LAMBDA f : f # bad)
    IN  [k \in 1..Len(got) |-> ContentTypeOf(got[k])]

WithAttachments(item, kinds) ==
    [item EXCEPT !.attachments = @ \o kinds]

\* the staging file `${safeTitle}_wallabag_${entry.id}.${format}`
StagingFile(entry, format) ==
    [title |-> entry.title, id |-> entry.id, format |-> format]

\* the temporary directory after the requests for one record: a file of
\* the same name is removed before the write; the file is removed again
\* after importFromFile has returned, and on no other path
StagingAfter(files, entry, requested, bad, how) ==
    LET done == {StagingFile(entry, requested[k]) :
                     k \in {j \in 1..Len(requested) : requested[j] # bad}}
        left == IF InSeq(bad, requested) /\ how # "download"
                THEN {StagingFile(entry, bad)}
                ELSE {}
    IN  (files \ done) \cup left

\* ------------------------------------------------------- remote listing
\* GET /api/entries?sort=updated&order=desc[&since]: since = 0 stands for
\* an absent parameter (getEntries adds it only when truthy)
Matching(rem, since) ==
    {id \in EntryIds : since = 0 \/ rem[id].updated_at > since}

SortKey(rem, id) == rem[id].updated_at * 1000 + id

RECURSIVE SortDesc(_, _)
SortDesc(rem, S) ==
    IF S = {} THEN <<>>
    ELSE LET m == CHOOSE x \in S : \A y \in S : SortKey(rem, y) <= SortKey(rem, x)
         IN  <<m>> \o SortDesc(rem, S \ {m})

TotalPages(total) ==
    IF total = 0 THEN 1 ELSE (total + PerPage - 1) \div PerPage

\* getAccessToken: every call posts to /oauth/v2/token; nothing is kept
\* from one call to the next.  made: the requests sent so far
GetAccessToken_Cached(made) ==
    IF \E k \in 1..Len(made) : made[k].kind = "token"
    THEN <<>>
    ELSE <<[kind |-> "token"]>>

GetAccessToken(made) == <<[kind |-> "token"]>>

\* a since parameter on every page request, whatever the watermark
SinceParam_Always(since) == {since}

\* the since parameter of a page request, as a set: syncWallabagEntries
\* passes undefined for a watermark of 0 and getEntries adds the parameter
\* only for a truthy value
SinceParam(since) == IF since = 0 THEN {} ELSE {since}

\* the requests of one getEntries call
GetEntries(made, since, page) ==
    GetAccessToken(made)
        \o <<[kind |-> "page", page |-> page, since |-> SinceParam(since)]>>

\* the requests of one downloadEntryAsPdf call
DownloadEntryAsPdf(made, id) ==
    GetAccessToken(made) \o <<[kind |-> "export", id |-> id, format |-> "pdf"]>>

\* the requests of one downloadEntryInFormat call
DownloadEntryInFormat(made, id, format) ==
    GetAccessToken(made)
        \o <<[kind |-> "export", id |-> id, format |-> format]>>

\* the requests of one getEntry call
GetEntry(made, id) ==
    GetAccessToken(made) \o <<[kind |-> "entry", id |-> id]>>

\* the requests of one testConnection call
TestConnection(made) ==
    GetAccessToken(made) \o <<[kind |-> "info"]>>

\* the requests of the export downloads of one entry, in order; under the
\* legacy flag the only download is downloadEntryAsPdf
RECURSIVE ExportCalls(_, _, _, _)
ExportCalls(made, id, legacy, downloads) ==
    IF downloads = <<>> THEN made
    ELSE ExportCalls(made \o (IF legacy
                               THEN DownloadEntryAsPdf(made, id)
                               ELSE DownloadEntryInFormat(made, id,
                                                          Head(downloads))),
                     id, legacy, Tail(downloads))

\* the response to one page request against the catalog as it is now
EntriesResponse(rem, since, page) ==
    LET ids == SortDesc(rem, Matching(rem, since))
        lo == (page - 1) * PerPage + 1
        hi == IF page * PerPage < Len(ids) THEN page * PerPage ELSE Len(ids)
    IN  [pages |-> TotalPages(Len(ids)),
         items |-> [k \in 1..(IF hi >= lo THEN hi - lo + 1 ELSE 0) |->
                       [id |-> ids[lo + k - 1], v |-> rem[ids[lo + k - 1]].v]]]

\* ----------------------------------------------------------------- state
VARIABLES
    now,             \* Date.now() in seconds
    restarts,        \* application restarts so far
    prefs,           \* wallabag.sync.* and wallabag.formats.* preferences
    lastTimestamp,   \* wallabag.sync.lastTimestamp
    syncTimer,       \* WallabagSync.syncTimer is not null
    intervals,       \* window intervals that are live
    syncInProgress,  \* WallabagSync.syncInProgress
    pass,            \* the invocations of syncWallabagEntries in flight
    remote,          \* the Wallabag catalog
    remoteUpdates,   \* edits made on the server so far
    library,         \* the Zotero items, in item order
    tmpFiles,        \* the files in Zotero's temporary directory
    collections,     \* the saved collections named Wallabag, by id
    importing,       \* the single-entry import, when it is under way
    faults,          \* attachments that have failed so far
    lastTrigger,     \* how the latest call of syncWallabagEntries began
    settled          \* how the latest pass ended, and the watermark it read

vars == <<now, restarts, remoteUpdates, prefs, lastTimestamp, syncTimer,
          intervals, syncInProgress, pass, remote, library, tmpFiles,
          collections, importing,
          faults, lastTrigger, settled>>

Slots == 1..MaxSlots

\* what the latest iteration of processEntries did: its outcome, the
\* export downloads it requested, and the format that failed
NoEntry ==
    [outcome |-> "none", downloads |-> <<>>, failed |-> "none",
     calls |-> <<>>, collection |-> "none"]

\* no single-entry import is under way
NoImport == [pc |-> "idle", item |-> 0, downloadPdf |-> FALSE]

FreePass ==
    [pc |-> "free", since |-> 0, page |-> 0, totalPages |-> 0,
     requests |-> <<>>, entries |-> <<>>, downloadPdf |-> FALSE, i |-> 0,
     step |-> 0, inFlight |-> {},
     added |-> 0, updated |-> 0, errors |-> 0, last |-> NoEntry]

\* the preference defaults
DefaultPrefs ==
    [enabled |-> FALSE, interval |-> DefaultInterval, downloadPdf |-> TRUE,
     formats |-> {"pdf"}]

Running(ps) == {s \in Slots : ps[s].pc # "free"}

NoTrigger == [outcome |-> "none", passActive |-> FALSE, notice |-> FALSE]
NotSettled == [kind |-> "none", before |-> 0]

Init ==
    /\ now = 1
    /\ restarts = 0
    /\ remoteUpdates = 0
    /\ prefs = DefaultPrefs
    /\ lastTimestamp = 0
    /\ syncTimer = FALSE
    /\ intervals = 0
    /\ syncInProgress = FALSE
    /\ pass = [s \in Slots |-> FreePass]
    /\ remote = [id \in EntryIds |-> [v |-> 1, updated_at |-> 0]]
    /\ library \in PriorLibraries
    /\ tmpFiles = {}
    /\ collections = {}
    /\ importing = NoImport
    /\ faults = 0
    /\ lastTrigger = NoTrigger
    /\ settled = NotSettled

\* --------------------------------------------------------------- actions
\* syncWallabagEntries without the in-progress check
SyncWallabagEntries_NoGuard(inProg, ps) ==
    /\ Running(ps) # Slots
    /\ syncInProgress' = TRUE
    /\ pass' = [ps EXCEPT ![Min(Slots \ Running(ps))] =
                   [FreePass EXCEPT !.pc = "listing",
                                    !.since = lastTimestamp,
                                    !.page = 1]]
    /\ lastTrigger' = [outcome |-> "started",
                       passActive |-> Running(ps) # {}, notice |-> FALSE]

\* a rejection that clears the in-progress flag
SyncWallabagEntries_RejectClearsFlag(inProg, ps) ==
    IF inProg
    THEN /\ syncInProgress' = FALSE
         /\ pass' = ps
         /\ lastTrigger' = [outcome |-> "rejected",
                            passActive |-> Running(ps) # {}, notice |-> TRUE]
    ELSE /\ Running(ps) # Slots
         /\ syncInProgress' = TRUE
         /\ pass' = [ps EXCEPT ![Min(Slots \ Running(ps))] =
                        [FreePass EXCEPT !.pc = "listing",
                                         !.since = lastTimestamp,
                                         !.page = 1]]
         /\ lastTrigger' = [outcome |-> "started",
                            passActive |-> Running(ps) # {}, notice |-> FALSE]

\* syncWallabagEntries up to its first suspension: the in-progress check,
\* the rejection notice, the flag, and the read of the watermark.
\* inProg and ps are the flag and the invocations as the caller left them.
SyncWallabagEntries(inProg, ps) ==
    IF inProg
    THEN /\ syncInProgress' = inProg
         /\ pass' = ps
         /\ lastTrigger' = [outcome |-> "rejected",
                            passActive |-> Running(ps) # {}, notice |-> TRUE]
    ELSE /\ Running(ps) # Slots
         /\ syncInProgress' = TRUE
         /\ pass' = [ps EXCEPT ![Min(Slots \ Running(ps))] =
                        [FreePass EXCEPT !.pc = "listing",
                                         !.since = lastTimestamp,
                                         !.page = 1]]
         /\ lastTrigger' = [outcome |-> "started",
                            passActive |-> Running(ps) # {}, notice |-> FALSE]

\* startSync without the call of stopSync
StartSync_NoStop(p, timer, n, inProg, ps) ==
    IF ~p.enabled \/ p.interval < MinInterval
    THEN /\ syncTimer' = timer
         /\ intervals' = n
         /\ syncInProgress' = inProg
         /\ pass' = ps
         /\ lastTrigger' = lastTrigger
    ELSE /\ syncTimer' = TRUE
         /\ intervals' = n + 1
         /\ SyncWallabagEntries(inProg, ps)

\* a startSync that cancels the pass in flight before it goes on
StartSync_Cancels(p, timer, n, inProg, ps) ==
    LET stopped == IF timer THEN n - 1 ELSE n
    IN  IF ~p.enabled \/ p.interval < MinInterval
        THEN /\ syncTimer' = FALSE
             /\ intervals' = stopped
             /\ syncInProgress' = FALSE
             /\ pass' = [s \in Slots |-> FreePass]
             /\ lastTrigger' = lastTrigger
        ELSE /\ syncTimer' = TRUE
             /\ intervals' = stopped + 1
             /\ SyncWallabagEntries(FALSE, [s \in Slots |-> FreePass])

\* startSync without the check of the interval against the floor
StartSync_NoFloor(p, timer, n, inProg, ps) ==
    LET stopped == IF timer THEN n - 1 ELSE n
    IN  IF ~p.enabled
        THEN /\ syncTimer' = FALSE
             /\ intervals' = stopped
             /\ syncInProgress' = inProg
             /\ pass' = ps
             /\ lastTrigger' = lastTrigger
        ELSE /\ syncTimer' = TRUE
             /\ intervals' = stopped + 1
             /\ SyncWallabagEntries(inProg, ps)

\* startSync: stopSync, the enabled and interval checks, setInterval, and
\* the initial call of syncWallabagEntries
StartSync(p, timer, n, inProg, ps) ==
    LET stopped == IF timer THEN n - 1 ELSE n
    IN  IF ~p.enabled \/ p.interval < MinInterval
        THEN /\ syncTimer' = FALSE
             /\ intervals' = stopped
             /\ syncInProgress' = inProg
             /\ pass' = ps
             /\ lastTrigger' = lastTrigger
        ELSE /\ syncTimer' = TRUE
             /\ intervals' = stopped + 1
             /\ SyncWallabagEntries(inProg, ps)

\* onStartup -> initWallabagSync after the application was restarted: the
\* preferences and the library persist, everything in memory is new
Startup ==
    /\ restarts < MaxRestarts
    /\ restarts' = restarts + 1
    /\ StartSync(prefs, FALSE, 0, FALSE, [s \in Slots |-> FreePass])
    /\ importing' = NoImport
    /\ UNCHANGED <<remoteUpdates, now, prefs, lastTimestamp, remote, library,
                   tmpFiles, faults, collections, settled>>

\* onPrefsEvent("wallabag-sync-pref-changed") -> restartWallabagSync
PrefChanged(e, iv, dl) ==
    /\ prefs' = [prefs EXCEPT !.enabled = e, !.interval = iv,
                              !.downloadPdf = dl]
    /\ prefs' # prefs
    /\ StartSync(prefs', syncTimer, intervals, syncInProgress, pass)
    /\ UNCHANGED <<remoteUpdates, now, restarts, lastTimestamp, remote, library,
                   tmpFiles, faults, collections, importing, settled>>

\* a wallabag.formats.* preference is switched; no event follows it
FormatPrefChanged(f) ==
    /\ prefs' = [prefs EXCEPT !.formats = IF f \in @ THEN @ \ {f}
                                          ELSE @ \cup {f}]
    /\ UNCHANGED <<remoteUpdates, now, restarts, lastTimestamp, syncTimer,
                   intervals, syncInProgress, pass, remote, library,
                   tmpFiles, faults, collections, importing, lastTrigger, settled>>

\* onPrefsEvent("wallabag-sync-now") -> syncWallabagNow
SyncNow ==
    /\ SyncWallabagEntries(syncInProgress, pass)
    /\ UNCHANGED <<remoteUpdates, now, restarts, prefs, lastTimestamp,
                   syncTimer, intervals,
                   remote, library, tmpFiles, faults, collections, importing, settled>>

\* the callback given to window.setInterval
TimerFire ==
    /\ intervals > 0
    /\ SyncWallabagEntries(syncInProgress, pass)
    /\ UNCHANGED <<remoteUpdates, now, restarts, prefs, lastTimestamp,
                   syncTimer, intervals,
                   remote, library, tmpFiles, faults, collections, importing, settled>>

\* the wall clock advances by a second
Tick ==
    /\ now < MaxClock
    /\ now' = now + 1
    /\ UNCHANGED <<remoteUpdates, restarts, prefs, lastTimestamp, syncTimer,
                   intervals,
                   syncInProgress, pass, remote, library, tmpFiles, faults, collections, importing, lastTrigger, settled>>

\* the user changes an entry on the Wallabag server
RemoteUpdate(id, v) ==
    /\ remoteUpdates < MaxRemoteUpdates
    /\ remoteUpdates' = remoteUpdates + 1
    /\ remote[id].v # v
    /\ remote' = [remote EXCEPT ![id] = [v |-> v, updated_at |-> now]]
    /\ UNCHANGED <<now, restarts, prefs, lastTimestamp, syncTimer, intervals,
                   syncInProgress, pass, library, tmpFiles, faults, collections, importing, lastTrigger, settled>>

\* a catch block that stamps the watermark before it rethrows
PassThrow_StampsWatermark(s) ==
    /\ pass' = [pass EXCEPT ![s] = FreePass]
    /\ settled' = [kind |-> "thrown", before |-> pass[s].since]
    /\ lastTimestamp' = now
    /\ UNCHANGED syncInProgress

\* the catch block of syncWallabagEntries: notify and rethrow
PassThrow(s) ==
    /\ pass' = [pass EXCEPT ![s] = FreePass]
    /\ settled' = [kind |-> "thrown", before |-> pass[s].since]
    /\ UNCHANGED <<lastTimestamp, syncInProgress>>

\* a listing that stops one page short of the page count
FetchPage_StopsEarly(s, outcome) ==
    /\ pass[s].pc = "listing"
    /\ IF outcome # "ok"
       THEN PassThrow(s)
       ELSE LET r == EntriesResponse(remote, pass[s].since, pass[s].page)
                total == IF pass[s].page = 1 THEN r.pages ELSE pass[s].totalPages
                all == pass[s].entries \o r.items
                sent == pass[s].requests
                          \o GetEntries(pass[s].requests, pass[s].since,
                                        pass[s].page)
            IN  /\ pass' = [pass EXCEPT ![s] =
                             IF pass[s].page + 1 < total
                             THEN [@ EXCEPT !.entries = all, !.totalPages = total,
                                            !.requests = sent, !.step = 0,
                                            !.page = @ + 1]
                             ELSE [@ EXCEPT !.entries = all, !.totalPages = total,
                                            !.requests = sent, !.step = 0,
                                            !.downloadPdf = prefs.downloadPdf,
                                            !.pc = "processing", !.i = 1]]
                /\ UNCHANGED <<lastTimestamp, syncInProgress, settled>>
    /\ UNCHANGED <<remoteUpdates, now, restarts, prefs, syncTimer, intervals,
                   remote, library, tmpFiles, faults, collections, importing, lastTrigger>>

\* a listing that creates the items of a page as soon as the page arrives
FetchPage_Streams(s, outcome) ==
    /\ pass[s].pc = "listing"
    /\ IF outcome # "ok"
       THEN PassThrow(s) /\ library' = library
       ELSE LET r == EntriesResponse(remote, pass[s].since, pass[s].page)
                total == IF pass[s].page = 1 THEN r.pages ELSE pass[s].totalPages
                all == pass[s].entries \o r.items
                sent == pass[s].requests
                          \o GetEntries(pass[s].requests, pass[s].since,
                                        pass[s].page)
            IN  /\ pass' = [pass EXCEPT ![s] =
                             IF pass[s].page < total
                             THEN [@ EXCEPT !.entries = all, !.totalPages = total,
                                            !.requests = sent, !.step = 0,
                                            !.page = @ + 1]
                             ELSE [@ EXCEPT !.entries = all, !.totalPages = total,
                                            !.requests = sent, !.step = 0,
                                            !.downloadPdf = prefs.downloadPdf,
                                            !.pc = "processing", !.i = 1]]
                /\ library' = IF r.items # <<>> /\ Len(library) < MaxItems
                              THEN Append(library,
                                     CreatedItem(WallabagEntry(r.items[1].id,
                                                               r.items[1].v)))
                              ELSE library
                /\ UNCHANGED <<lastTimestamp, syncInProgress, settled>>
    /\ UNCHANGED <<remoteUpdates, now, restarts, prefs, syncTimer, intervals,
                   remote, tmpFiles, faults, collections, importing, lastTrigger>>

\* getAllEntries: one getEntries call (token request, then page request)
FetchPage(s, outcome) ==
    /\ pass[s].pc = "listing"
    /\ IF outcome # "ok"
       THEN PassThrow(s)
       ELSE LET r == EntriesResponse(remote, pass[s].since, pass[s].page)
                total == IF pass[s].page = 1 THEN r.pages ELSE pass[s].totalPages
                all == pass[s].entries \o r.items
                sent == pass[s].requests
                          \o GetEntries(pass[s].requests, pass[s].since,
                                        pass[s].page)
            IN  /\ pass' = [pass EXCEPT ![s] =
                             IF pass[s].page < total
                             THEN [@ EXCEPT !.entries = all, !.totalPages = total,
                                            !.requests = sent, !.step = 0,
                                            !.page = @ + 1]
                             ELSE [@ EXCEPT !.entries = all, !.totalPages = total,
                                            !.requests = sent, !.step = 0,
                                            !.downloadPdf = prefs.downloadPdf,
                                            !.pc = "processing", !.i = 1]]
                /\ UNCHANGED <<lastTimestamp, syncInProgress, settled>>
    /\ UNCHANGED <<remoteUpdates, now, restarts, prefs, syncTimer, intervals,
                   remote, library, tmpFiles, faults, collections, importing,
                   lastTrigger>>

\* ----------------------------------------------------- the collection
\* the call of the collection step of the create branch that fails: the
\* lookup by name, the save of a new collection, the save of the item
\* after addToCollection; or none
CollectionOutcomes == {"ok", "lookup", "create", "assign"}

NewCollection(colls) == Cardinality(colls) + 1

\* getOrCreateWallabagCollection when nothing runs between its lookup and
\* its save: the saved collections after the call, and what it returns
\* (the first collection named Wallabag, a new one, or null: the empty set)
GetOrCreateWallabagCollection(colls, coll) ==
    IF coll = "lookup" THEN [collections |-> colls, found |-> {}]
    ELSE IF colls # {} THEN [collections |-> colls, found |-> {Min(colls)}]
    ELSE IF coll = "create" THEN [collections |-> colls, found |-> {}]
    ELSE [collections |-> colls \cup {NewCollection(colls)},
          found |-> {NewCollection(colls)}]

\* addToCollection and the second saveTx of the create branch
AddedToCollection(item, found, coll) ==
    IF coll = "assign" THEN item
    ELSE [item EXCEPT !.collections = @ \cup found]

\* a collection step whose failure makes the entry an error
CountedAs_CollectionFatal(ok, found, coll) ==
    IF ~ok THEN "error"
    ELSE IF found # {} THEN "updated"
    ELSE IF coll # "ok" THEN "error"
    ELSE "added"

\* the counter an entry goes to: whatever the catch of the loop receives
\* is an error; the collection step throws nothing
CountedAs(ok, found, coll) ==
    IF ~ok THEN "error"
    ELSE IF found # {} THEN "updated"
    ELSE "added"

\* counters that leave a failed entry out
Tally_DropsErrors(p, as) ==
    [p EXCEPT !.added = IF as = "added" THEN @ + 1 ELSE @,
              !.updated = IF as = "updated" THEN @ + 1 ELSE @]

\* added++, updated++ or errors++
Tally(p, as) ==
    [p EXCEPT !.added = IF as = "added" THEN @ + 1 ELSE @,
              !.updated = IF as = "updated" THEN @ + 1 ELSE @,
              !.errors = IF as = "error" THEN @ + 1 ELSE @]

\* a loop that counts the failure of an entry and leaves the entries
\* after it unprocessed
ProcessEntry_StopsAtFailure(s, ok, bad, how) ==
    /\ pass[s].pc = "processing"
    /\ pass[s].i <= Len(pass[s].entries)
    /\ LET e == pass[s].entries[pass[s].i]
           entry == WallabagEntry(e.id, e.v)
           found == FindExistingZoteroItems(library, e.id)
           formats == IF found # {}
                      THEN UpdateFormats(pass[s].downloadPdf, library[Min(found)])
                      ELSE CreateFormats(pass[s].downloadPdf, prefs.formats)
           requested == DownloadsRequested(formats, bad)
           kinds == AttachedKinds(requested, bad)
           got == GetOrCreateWallabagCollection(collections, "ok")
           as == CountedAs(ok, found, "ok")
           did(step) == [outcome |-> as, downloads |-> requested,
                         failed |-> bad,
                         calls |-> ExportCalls(<<>>, e.id,
                                               pass[s].downloadPdf,
                                               requested),
                         collection |-> step]
       IN  IF ~ok
           THEN /\ bad = "none" /\ how = "download" /\ "ok" = "ok"
                /\ library' = library
                /\ tmpFiles' = tmpFiles
                /\ faults' = faults
                /\ collections' = collections
                /\ pass' = [pass EXCEPT ![s] =
                               [Tally(@, as) EXCEPT
                                   !.i = Len(pass[s].entries) + 1, !.step = 0,
                                   !.last = [NoEntry EXCEPT !.outcome = as]]]
           ELSE /\ IF bad = "none" THEN how = "download"
                                   ELSE InSeq(bad, formats)
                /\ tmpFiles' = StagingAfter(tmpFiles, entry, requested, bad, how)
                /\ faults' = IF bad = "none" THEN faults ELSE faults + 1
                /\ faults' <= MaxFaults
                /\ IF found # {}
                   THEN /\ "ok" = "ok"
                        /\ library' =
                             [k \in 1..Len(library) |->
                                IF k \in UpdateTargets(found)
                                THEN WithAttachments(
                                         UpdatedItem(library[k], entry), kinds)
                                ELSE library[k]]
                        /\ collections' = collections
                        /\ pass' = [pass EXCEPT ![s] =
                                       [Tally(@, as) EXCEPT
                                           !.i = @ + 1, !.step = 0,
                                           !.last = did("none")]]
                   ELSE /\ Len(library) < MaxItems
                        /\ "ok" = "create" => collections = {}
                        /\ library' = Append(library,
                               WithAttachments(
                                   AddedToCollection(CreatedItem(entry),
                                                     got.found, "ok"),
                                   kinds))
                        /\ collections' = got.collections
                        /\ pass' = [pass EXCEPT ![s] =
                                       [Tally(@, as) EXCEPT
                                           !.i = @ + 1, !.step = 0,
                                           !.last = did("ok")]]
    /\ UNCHANGED <<remoteUpdates, now, restarts, prefs, lastTimestamp,
                   syncTimer, intervals, syncInProgress, remote, importing,
                   lastTrigger, settled>>

\* processEntries: one iteration of the loop.  ok: the lookup and the
\* save of the item succeed; bad: the format whose attachment fails;
\* how: the step of that attachment that fails; coll: the call of the
\* collection step that fails
ReconcileEntry(s, ok, bad, how, coll) ==
    /\ pass[s].pc = "processing"
    /\ pass[s].i <= Len(pass[s].entries)
    /\ LET e == pass[s].entries[pass[s].i]
           entry == WallabagEntry(e.id, e.v)
           found == FindExistingZoteroItems(library, e.id)
           formats == IF found # {}
                      THEN UpdateFormats(pass[s].downloadPdf, library[Min(found)])
                      ELSE CreateFormats(pass[s].downloadPdf, prefs.formats)
           requested == DownloadsRequested(formats, bad)
           kinds == AttachedKinds(requested, bad)
           got == GetOrCreateWallabagCollection(collections, coll)
           as == CountedAs(ok, found, coll)
           did(step) == [outcome |-> as, downloads |-> requested,
                         failed |-> bad,
                         calls |-> ExportCalls(<<>>, e.id,
                                               pass[s].downloadPdf,
                                               requested),
                         collection |-> step]
       IN  IF ~ok
           THEN /\ bad = "none" /\ how = "download" /\ coll = "ok"
                /\ library' = library
                /\ tmpFiles' = tmpFiles
                /\ faults' = faults
                /\ collections' = collections
                /\ pass' = [pass EXCEPT ![s] =
                               [Tally(@, as) EXCEPT
                                   !.i = @ + 1, !.step = 0,
                                   !.last = [NoEntry EXCEPT !.outcome = as]]]
           ELSE /\ IF bad = "none" THEN how = "download"
                                   ELSE InSeq(bad, formats)
                /\ tmpFiles' = StagingAfter(tmpFiles, entry, requested, bad, how)
                /\ faults' = IF bad = "none" THEN faults ELSE faults + 1
                /\ faults' <= MaxFaults
                /\ IF found # {}
                   THEN /\ coll = "ok"
                        /\ library' =
                             [k \in 1..Len(library) |->
                                IF k \in UpdateTargets(found)
                                THEN WithAttachments(
                                         UpdatedItem(library[k], entry), kinds)
                                ELSE library[k]]
                        /\ collections' = collections
                        /\ pass' = [pass EXCEPT ![s] =
                                       [Tally(@, as) EXCEPT
                                           !.i = @ + 1, !.step = 0,
                                           !.last = did("none")]]
                   ELSE /\ Len(library) < MaxItems
                        /\ coll = "create" => collections = {}
                        /\ library' = Append(library,
                               WithAttachments(
                                   AddedToCollection(CreatedItem(entry),
                                                     got.found, coll),
                                   kinds))
                        /\ collections' = got.collections
                        /\ pass' = [pass EXCEPT ![s] =
                                       [Tally(@, as) EXCEPT
                                           !.i = @ + 1, !.step = 0,
                                           !.last = did(coll)]]
    /\ UNCHANGED <<remoteUpdates, now, restarts, prefs, lastTimestamp,
                   syncTimer, intervals, syncInProgress, remote, importing,
                   lastTrigger, settled>>

\* the same when every call of the collection step succeeds
ProcessEntry(s, ok, bad, how) == ReconcileEntry(s, ok, bad, how, "ok")

\* a pass that stamps the watermark with the update time of the newest
\* entry it listed instead of the clock
FinishPass_EntryStamp(s) ==
    /\ pass[s].pc = "processing"
    /\ pass[s].i > Len(pass[s].entries)
    /\ lastTimestamp' = IF pass[s].entries = <<>> THEN 0
                        ELSE remote[pass[s].entries[1].id].updated_at
    /\ pass' = [pass EXCEPT ![s] = FreePass]
    /\ settled' = [kind |-> "returned", before |-> pass[s].since]
    /\ UNCHANGED <<remoteUpdates, now, restarts, prefs, syncTimer, intervals,
                   syncInProgress,
                   remote, library, tmpFiles, faults, collections, importing, lastTrigger>>

\* a pass that leaves the watermark where it was when an entry failed
FinishPass_HoldsOnErrors(s) ==
    /\ pass[s].pc = "processing"
    /\ pass[s].i > Len(pass[s].entries)
    /\ lastTimestamp' = IF pass[s].errors > 0 THEN lastTimestamp ELSE now
    /\ pass' = [pass EXCEPT ![s] = FreePass]
    /\ settled' = [kind |-> "returned", before |-> pass[s].since]
    /\ UNCHANGED <<remoteUpdates, now, restarts, prefs, syncTimer, intervals,
                   syncInProgress, remote, library, tmpFiles, faults,
                   collections, importing, lastTrigger>>

\* syncWallabagEntries after processEntries: write the watermark, return
FinishPass(s) ==
    /\ pass[s].pc = "processing"
    /\ pass[s].i > Len(pass[s].entries)
    /\ lastTimestamp' = now
    /\ pass' = [pass EXCEPT ![s] = FreePass]
    /\ settled' = [kind |-> "returned", before |-> pass[s].since]
    /\ UNCHANGED <<remoteUpdates, now, restarts, prefs, syncTimer, intervals,
                   syncInProgress,
                   remote, library, tmpFiles, faults, collections, importing, lastTrigger>>

\* the sync checkbox and the interval field are separate controls, each
\* with its own event
Next ==
    \/ Startup
    \/ \E e \in BOOLEAN :
          PrefChanged(e, prefs.interval, prefs.downloadPdf)
    \/ \E iv \in IntervalInputs :
          PrefChanged(prefs.enabled, iv, prefs.downloadPdf)
    \/ SyncNow
    \/ TimerFire
    \/ Tick
    \/ \E id \in EntryIds, v \in Versions : RemoteUpdate(id, v)
    \/ \E s \in Slots, o \in {"ok", "auth", "transport"} : FetchPage(s, o)
    \/ \E s \in Slots, ok \in BOOLEAN : ProcessEntry(s, ok, "none", "download")
    \/ \E s \in Slots : FinishPass(s)

\* the scheduler and the reconciliation: the catalog, the clock and the
\* scheduling preferences change; every export that is requested succeeds
Spec == Init /\ [][Next]_vars

\* the attachment step: the format preferences change and exports fail,
\* under the catalog and the clock of the initial state
AttachNext ==
    \/ Startup
    \/ \E dl \in BOOLEAN : PrefChanged(prefs.enabled, prefs.interval, dl)
    \/ \E f \in ToggledFormats : FormatPrefChanged(f)
    \/ SyncNow
    \/ \E s \in Slots, o \in {"ok", "auth", "transport"} : FetchPage(s, o)
    \/ \E s \in Slots, ok \in BOOLEAN, bad \in Formats \cup {"none"},
          how \in {"download", "write", "import"} : ProcessEntry(s, ok, bad, how)
    \/ \E s \in Slots : FinishPass(s)

AttachSpec == Init /\ [][AttachNext]_vars

\* the schedule: every control of the sync section changes, one at a
\* time, with two intervals that startSync accepts, under the catalog and
\* the clock of the initial state
ScheduleNext ==
    \/ Startup
    \/ \E e \in BOOLEAN :
          PrefChanged(e, prefs.interval, prefs.downloadPdf)
    \/ \E iv \in ScheduleInputs :
          PrefChanged(prefs.enabled, iv, prefs.downloadPdf)
    \/ \E dl \in BOOLEAN :
          PrefChanged(prefs.enabled, prefs.interval, dl)
    \/ SyncNow
    \/ TimerFire
    \/ \E s \in Slots, o \in {"ok", "auth", "transport"} : FetchPage(s, o)
    \/ \E s \in Slots, ok \in BOOLEAN : ProcessEntry(s, ok, "none", "download")
    \/ \E s \in Slots : FinishPass(s)

ScheduleSpec == Init /\ [][ScheduleNext]_vars

\* ---------------------------------------------------------------- claims
\* C1: at most one pass executes at any instant, and a call of
\* syncWallabagEntries made while a pass executes starts nothing: it is
\* rejected (returns null) and shows the "already in progress" notice.
SingleFlight ==
    /\ Cardinality(Running(pass)) <= 1
    /\ lastTrigger.passActive =>
           lastTrigger.outcome = "rejected" /\ lastTrigger.notice

\* C1 witness: a second call was rejected while the first pass is executing
SecondCallRejected ==
    /\ lastTrigger.outcome = "rejected"
    /\ lastTrigger.passActive
    /\ Cardinality(Running(pass)) = 1

\* C2: once a pass has settled (returned or thrown) and none is executing,
\* the in-progress flag is clear.
FlagClearedWhenSettled ==
    Running(pass) = {} => ~syncInProgress

\* C3: a trigger is rejected only while a pass is executing; with no pass
\* executing, a timer tick or syncNow starts a new pass.
RejectedOnlyWhileRunning ==
    lastTrigger.outcome = "rejected" => lastTrigger.passActive

\* C4: the watermark a pass works with is the one read at its start; the
\* watermark is written only by the step that ends a pass whose listed
\* entries have all been processed, and a pass that aborts while listing
\* leaves the watermark at the value it had when the pass began.
WatermarkWrittenOnlyOnFullPass ==
    [][/\ \A s \in Running(pass') : pass'[s].since = lastTimestamp'
       /\ lastTimestamp' # lastTimestamp =>
              \E s \in Slots : /\ pass[s].pc = "processing"
                               /\ pass[s].i > Len(pass[s].entries)
                               /\ pass'[s].pc = "free"
       /\ \A s \in Slots :
              (pass[s].pc = "listing" /\ pass'[s].pc = "free"
                  /\ restarts' = restarts)
              => lastTimestamp' = pass[s].since]_vars

\* C4 witness: a pass that began with a non-zero watermark has thrown and
\* the watermark still has that value
PassThrewWatermarkKept ==
    /\ settled.kind = "thrown"
    /\ settled.before > 0
    /\ lastTimestamp = settled.before

\* C5: the persisted watermark never decreases.
WatermarkNeverDecreases ==
    [][lastTimestamp' >= lastTimestamp]_vars

\* C5 witness: a later pass has moved a non-zero watermark forward
WatermarkAdvancedAgain ==
    /\ settled.kind = "returned"
    /\ settled.before > 0
    /\ lastTimestamp > settled.before

\* an item that shows the entry as it is on the server now
Reflects(item, id) ==
    /\ item.shortTitle = ToString(id)
    /\ TitleOf(remote[id].v) # "" => item.title = TitleOf(remote[id].v)
    /\ item.tags = EntryTags(WallabagEntry(id, remote[id].v))

\* C6: once a pass has returned and set the watermark to W, every remote
\* change with update time below W is reconciled into the library.
WatermarkCoversReconciled ==
    settled.kind = "returned" =>
        \A id \in EntryIds :
            remote[id].updated_at < lastTimestamp =>
                \E k \in 1..Len(library) : Reflects(library[k], id)

\* the items that the create branch made for an entry id
CreatedFor(id) ==
    {k \in 1..Len(library) :
        library[k].extra = CreatedItem(WallabagEntry(id, 1)).extra}

\* C7: an entry whose item was created by an earlier pass resolves to an
\* update in a later pass: when the pass has created nothing yet and the
\* library holds a created item for the entry, reconciling the entry counts
\* it as updated, not added, and adds no item.
ResyncResolvesToUpdate ==
    [][\A s \in Slots :
          (/\ pass[s].pc = "processing"
           /\ pass'[s].pc = "processing"
           /\ pass'[s].i = pass[s].i + 1
           /\ pass'[s].errors = pass[s].errors
           /\ pass[s].added = 0
           /\ CreatedFor(pass[s].entries[pass[s].i].id) # {})
          => /\ pass'[s].updated = pass[s].updated + 1
             /\ pass'[s].added = pass[s].added
             /\ Len(library') = Len(library)]_vars

\* C8: an item created from the entry with id N has an extra field that
\* contains 'Wallabag ID: N', the sort key ToString(N), and as tags the
\* entry's labels plus 'Starred' when is_starred is 1.
CreatedItemCarriesMarker ==
    [][\A s \in Slots :
          (pass[s].pc = "processing" /\ Len(library') = Len(library) + 1)
          => LET e == pass[s].entries[pass[s].i]
                 item == library'[Len(library')]
             IN  /\ Includes(item.extra, <<IdMarker>> \o ToString(e.id))
                 /\ item.shortTitle = ToString(e.id)
                 /\ item.tags = EntryTags(WallabagEntry(e.id, e.v))]_vars

\* the text 'Wallabag ID: <id>' at position k, not followed by a digit
ExactMarkerAt(s, k, id) ==
    LET m == <<IdMarker>> \o ToString(id)
    IN  /\ k + Len(m) - 1 <= Len(s)
        /\ SubSeq(s, k, k + Len(m) - 1) = m
        /\ (k + Len(m) <= Len(s) => ~IsDigit(s[k + Len(m)]))

MarkerCount(s, id) == Cardinality({k \in 1..Len(s) : ExactMarkerAt(s, k, id)})

HasLegacyMarker(s) ==
    \E k \in 1..(Len(s) - 1) : s[k] = LegacyMarker /\ IsDigit(s[k + 1])

\* the items that a step of pass s changes
Touched(s) ==
    {k \in 1..Len(library) :
        /\ pass[s].pc = "processing" /\ pass'[s].pc = "processing"
        /\ Len(library') = Len(library)
        /\ library'[k] # library[k]}

\* C9: after an update of an item by the entry with id N, the item's extra
\* field contains exactly one marker for N and no legacy 'wallabag-id:'
\* marker.
UpdateKeepsOneMarker ==
    [][\A s \in Slots :
          (/\ pass[s].pc = "processing"
           /\ pass'[s].pc = "processing"
           /\ pass'[s].updated = pass[s].updated + 1)
          => LET id == pass[s].entries[pass[s].i].id
                 k == Min(FindExistingZoteroItems(library, id))
             IN  /\ MarkerCount(library'[k].extra, id) = 1
                 /\ ~HasLegacyMarker(library'[k].extra)]_vars

\* C10: matching is exact-token: a pass changes an item for the entry with
\* id N only when the item carries the marker of N itself, not the marker
\* of an id that has N as a decimal prefix.
MatchIsExactToken ==
    [][\A s \in Slots : \A k \in Touched(s) :
          MarkerCount(library[k].extra, pass[s].entries[pass[s].i].id) >= 1]_vars

\* a step in which pass s has reconciled its next entry without failure
Reconciles(s) ==
    /\ pass[s].pc = "processing"
    /\ pass'[s].pc = "processing"
    /\ pass'[s].i = pass[s].i + 1
    /\ pass'[s].errors = pass[s].errors

\* C11: after an entry is reconciled (created or updated), the record's
\* title and url equal the entry's where the entry's value is non-empty;
\* where it is empty the record keeps the value it had before.
TitleAndUrlFollowEntry ==
    [][\A s \in Slots :
          Reconciles(s)
          => LET e == pass[s].entries[pass[s].i]
                 found == FindExistingZoteroItems(library, e.id)
                 k == IF found # {} THEN Min(found) ELSE Len(library')
                 priorTitle == IF found # {} THEN library[k].title ELSE ""
                 priorUrl == IF found # {} THEN library[k].url ELSE ""
             IN  /\ library'[k].title =
                        IF TitleOf(e.v) # "" THEN TitleOf(e.v) ELSE priorTitle
                 /\ library'[k].url =
                        IF UrlOf(e.v) # "" THEN UrlOf(e.v) ELSE priorUrl]_vars

\* C11 witness: an update by an entry with an empty title and a non-empty
\* url has kept the item's title and replaced its url
EmptyTitleKeptUrlTaken ==
    \E k \in 1..Len(library) :
        /\ library[k].title = "Old"
        /\ library[k].url = UrlOf(2)
        /\ \E s \in Slots : pass[s].last.outcome = "updated"

\* C12: a listing whose first response reports P pages requests the pages
\* 1..P in increasing order with the same since value, P requests in all,
\* and hands on the items of the pages concatenated first page first.
PagesListedInOrder ==
    [][\A s \in Slots :
          (/\ pass[s].pc = "listing"
           /\ pass'[s].pc # "free"
           /\ pass'[s] # pass[s]
           /\ restarts' = restarts)
          => LET r == EntriesResponse(remote, pass[s].since, pass[s].page)
                 P == IF pass[s].page = 1 THEN r.pages ELSE pass[s].totalPages
             IN  /\ P >= 1
                 /\ pass'[s].since = pass[s].since
                 /\ pass'[s].totalPages = P
                 /\ pass'[s].entries = pass[s].entries \o r.items
                 /\ IF pass[s].page < P
                    THEN /\ pass'[s].pc = "listing"
                         /\ pass'[s].page = pass[s].page + 1
                    ELSE /\ pass'[s].pc = "processing"
                         /\ pass'[s].page = P]_vars

\* C12 witness: a listing of two pages has ended after its second request
\* with the items of both pages
ListedTwoPages ==
    \E s \in Slots :
        /\ pass[s].pc = "processing"
        /\ pass[s].totalPages = 2
        /\ pass[s].page = 2
        /\ Len(pass[s].entries) = 2

\* C13: a failure while one entry is reconciled is counted in errors and
\* nothing else; the loop goes on with the next entry, one entry at a
\* time, and a pass that is processing ends only by returning after its
\* last entry.
EntryFailureIsolated ==
    [][\A s \in Slots :
          (pass[s].pc = "processing" /\ pass'[s] # pass[s]
              /\ restarts' = restarts)
          => /\ pass'[s].pc = "processing"
                => /\ pass'[s].i = pass[s].i + 1
                   /\ pass'[s].entries = pass[s].entries
                   /\ pass'[s].last.outcome = "error"
                      => /\ pass'[s].errors = pass[s].errors + 1
                         /\ pass'[s].added = pass[s].added
                         /\ pass'[s].updated = pass[s].updated
                         /\ library' = library
             /\ pass'[s].pc # "processing"
                => /\ pass'[s].pc = "free"
                   /\ settled'.kind = "returned"
                   /\ pass[s].i > Len(pass[s].entries)]_vars

\* C13 witness: after the failure of an entry the same pass has reconciled
\* a later entry
FailedEntryThenNext ==
    \E s \in Slots :
        /\ pass[s].errors >= 1
        /\ pass[s].last.outcome \in {"added", "updated"}

\* the item that pass s reconciles its next entry into, in the library
\* after the step
Target(s) ==
    LET found == FindExistingZoteroItems(library, pass[s].entries[pass[s].i].id)
    IN  IF found # {} THEN Min(found) ELSE Len(library')

\* the formats that the branch taken for the next entry of pass s goes
\* through when no attachment fails
BranchFormats(s) ==
    LET found == FindExistingZoteroItems(library, pass[s].entries[pass[s].i].id)
    IN  IF found # {}
        THEN UpdateFormats(pass[s].downloadPdf, library[Min(found)])
        ELSE CreateFormats(pass[s].downloadPdf, prefs.formats)

\* C14: when the attachment of one format fails, the export of every
\* other format of the record is still requested and attached, and the
\* entry is counted as added or updated, not as an error.
FormatFailureIsolated ==
    [][\A s \in Slots :
          (/\ pass[s].pc = "processing"
           /\ pass'[s].pc = "processing"
           /\ pass'[s].i = pass[s].i + 1
           /\ pass'[s].last.failed # "none")
          => /\ pass'[s].last.downloads = BranchFormats(s)
             /\ \A k \in 1..Len(BranchFormats(s)) :
                    BranchFormats(s)[k] # pass'[s].last.failed
                    => InSeq(ContentTypeOf(BranchFormats(s)[k]),
                             library'[Target(s)].attachments)
             /\ pass'[s].last.outcome \in {"added", "updated"}
             /\ pass'[s].errors = pass[s].errors
             /\ pass'[s].added + pass'[s].updated =
                    pass[s].added + pass[s].updated + 1]_vars

\* C14 witness: the pdf export of a record has failed, the epub export
\* after it was requested and attached, and the entry counts as added
LaterFormatAttachedAfterFailure ==
    \E s \in Slots :
        /\ pass[s].last.failed = "pdf"
        /\ pass[s].last.downloads = <<"pdf", "epub">>
        /\ pass[s].last.outcome = "added"
        /\ library[Len(library)].attachments = <<ContentTypeOf("epub")>>

\* C15: no staging file that an attachment has written remains in the
\* temporary directory once the attachment has returned or thrown.
NoStagingFileRemains ==
    tmpFiles = {}

CountOf(seq, x) == Cardinality({k \in 1..Len(seq) : seq[k] = x})

\* C16: a reconcile requests no export whose content type the record
\* already holds, and no record ever holds two attachments of the content
\* type of one format.
NoSecondPayloadOfAKind ==
    [][/\ \A s \in Slots :
             (Reconciles(s) /\ Len(library') = Len(library))
             => \A j \in 1..Len(pass'[s].last.downloads) :
                    ~InSeq(ContentTypeOf(pass'[s].last.downloads[j]),
                           library[Target(s)].attachments)
       /\ \A k \in 1..Len(library') :
             \A m, n \in 1..Len(library'[k].attachments) :
                 m # n => library'[k].attachments[m] # library'[k].attachments[n]]_vars

\* C16 witness: in a pass after a restart, with downloadPdf set, an update
\* of a record that holds a pdf has requested no export
LaterPassSkipsPdf ==
    \E s \in Slots :
        /\ restarts = 1
        /\ pass[s].since > 0
        /\ pass[s].downloadPdf
        /\ pass[s].last.outcome = "updated"
        /\ pass[s].last.downloads = <<>>
        /\ \E k \in 1..Len(library) :
               CountOf(library[k].attachments, "application/pdf") = 1

\* the formats in force for a pass: the legacy toggle stands for pdf
\* alone, otherwise the formats whose toggle is set
EnabledFormats(s) ==
    LET seq == CreateFormats(pass[s].downloadPdf, prefs.formats)
    IN  {seq[k] : k \in 1..Len(seq)}

\* C17: after a reconcile in which no export fails, the record holds an
\* attachment of the content type of every enabled format, whether the
\* record was created or updated.
EveryEnabledFormatAttached ==
    [][\A s \in Slots :
          (Reconciles(s) /\ pass'[s].last.failed = "none")
          => \A f \in EnabledFormats(s) :
                 InSeq(ContentTypeOf(f), library'[Target(s)].attachments)]_vars

\* C18: a call of syncWallabagEntries while a pass executes changes
\* nothing but the notice: not the flag, the timer, the watermark, the
\* passes and their tallies, or the library; and a pass begins only in a
\* step that is itself a trigger, never in the step that ends a pass.
RejectedTriggerIsNoOp ==
    [][/\ (Running(pass) # {} /\ (SyncNow \/ TimerFire))
          => /\ UNCHANGED <<syncInProgress, syncTimer, intervals,
                            lastTimestamp, pass, library, prefs, settled>>
             /\ lastTrigger'.outcome = "rejected"
       /\ \A s \in Slots :
             (pass[s].pc = "free" /\ pass'[s].pc # "free")
             => /\ lastTrigger'.outcome = "started"
                /\ \/ SyncNow
                   \/ TimerFire
                   \/ Startup
                   \/ \E e \in BOOLEAN, iv \in IntervalInputs :
                         PrefChanged(e, iv, prefs.downloadPdf)
       /\ \A s \in Slots :
             (pass[s].pc # "free" /\ pass'[s].pc = "free"
                 /\ restarts' = restarts)
             => Running(pass') = Running(pass) \ {s}]_vars

\* C18 witness: with the timer scheduled, a call made while a pass was
\* listing was rejected and the pass has gone on to its second page
TimerRejectedDuringPass ==
    /\ lastTrigger.outcome = "rejected"
    /\ lastTrigger.passActive
    /\ syncTimer
    /\ \E s \in Slots : pass[s].pc = "listing" /\ pass[s].page = 2

\* what a pass that is executing will fetch for the entries it has yet to
\* reconcile: the formats of a created record and the legacy toggle that
\* the update branch goes by
FetchPlan(s) ==
    LET dl == IF pass[s].pc = "listing" THEN prefs.downloadPdf
              ELSE pass[s].downloadPdf
    IN  [create |-> CreateFormats(dl, prefs.formats), update |-> dl]

\* C19: while a pass executes, no change of the preferences alters the
\* formats that the pass fetches for its entries.
ConfigFixedDuringPass ==
    [][\A s \in Slots :
          (pass[s].pc # "free" /\ pass'[s].pc # "free"
              /\ restarts' = restarts)
          => FetchPlan(s)' = FetchPlan(s)]_vars

\* C20: startSync leaves exactly one live interval and attempts one pass
\* when sync is enabled and the interval is at least the floor; otherwise
\* it leaves no timer and starts no pass.
StartSyncSchedules ==
    [][(\/ Startup
        \/ \E e \in BOOLEAN, iv \in IntervalInputs :
              PrefChanged(e, iv, prefs.downloadPdf))
       => LET fresh == restarts' # restarts
              before == IF fresh THEN {} ELSE Running(pass)
          IN  IF prefs'.enabled /\ prefs'.interval >= MinInterval
              THEN /\ syncTimer'
                   /\ intervals' = 1
                   /\ IF syncInProgress /\ ~fresh
                      THEN /\ lastTrigger'.outcome = "rejected"
                           /\ pass' = pass
                      ELSE /\ lastTrigger'.outcome = "started"
                           /\ Cardinality(Running(pass')) =
                                  Cardinality(before) + 1
              ELSE /\ ~syncTimer'
                   /\ intervals' = 0
                   /\ Running(pass') = before
                   /\ lastTrigger' = lastTrigger]_vars

\* C20 witness: sync is enabled with an interval below the floor; no timer
\* is set and no pass has been started
BelowFloorNothingStarted ==
    /\ prefs.enabled
    /\ prefs.interval < MinInterval
    /\ ~syncTimer
    /\ intervals = 0
    /\ ~syncInProgress
    /\ Running(pass) = {}

\* C21: at most one interval is live at any time, the one syncTimer holds;
\* when syncTimer is null none is live.
TimerNeverLeaked ==
    /\ intervals <= 1
    /\ syncTimer <=> intervals = 1

\* C21 witness: after a pass of this session has settled, restartSync has
\* set the timer anew with the interval at the floor, and one interval is
\* live
TimerSetAgain ==
    /\ syncTimer
    /\ intervals = 1
    /\ prefs.interval = MinInterval
    /\ settled.kind = "returned"
    /\ lastTrigger.outcome = "rejected"
    /\ ~lastTrigger.passActive

\* C22: restartSync (with its stopSync) while a pass executes leaves the
\* pass, the in-progress flag, the watermark and the library as they are,
\* and its own call of syncWallabagEntries, if it makes one, is rejected.
RestartDoesNotCancel ==
    [][(/\ Running(pass) # {}
        /\ \E e \in BOOLEAN, iv \in ScheduleInputs, dl \in BOOLEAN :
              PrefChanged(e, iv, dl))
       => /\ pass' = pass
          /\ syncInProgress' = syncInProgress
          /\ lastTimestamp' = lastTimestamp
          /\ library' = library
          /\ syncTimer' => lastTrigger'.outcome = "rejected"]_vars

\* C22 witness: restartSync ran with the interval at the floor while a
\* pass was executing; its call was rejected and the pass is processing
RestartedDuringPass ==
    /\ prefs.enabled
    /\ prefs.interval = MinInterval
    /\ lastTrigger.outcome = "rejected"
    /\ lastTrigger.passActive
    /\ \E s \in Slots : pass[s].pc = "processing" /\ pass[s].i = 2

\* a request sequence in which every call follows a token request of its
\* own
TokenPerCall(seq) ==
    /\ Len(seq) % 2 = 0
    /\ \A k \in 1..Len(seq) : (seq[k].kind = "token") <=> (k % 2 = 1)

CallsOfKind(seq, kind) == {k \in 1..Len(seq) : seq[k].kind = kind}

\* C23: every page request, export download, single-entry fetch and info
\* probe directly follows a token request of its own: a listing that has
\* fetched P pages has sent P token requests, and an entry with d export
\* downloads has sent d token requests.
EveryCallHasOwnToken ==
    \A s \in Running(pass) :
        LET fetched == IF pass[s].pc = "listing" THEN pass[s].page - 1
                       ELSE pass[s].totalPages
        IN  /\ TokenPerCall(pass[s].requests)
            /\ Cardinality(CallsOfKind(pass[s].requests, "token")) = fetched
            /\ Cardinality(CallsOfKind(pass[s].requests, "page")) = fetched
            /\ TokenPerCall(pass[s].last.calls)
            /\ Cardinality(CallsOfKind(pass[s].last.calls, "export"))
                  = Len(pass[s].last.downloads)
            /\ \A id \in EntryIds :
                  TokenPerCall(pass[s].requests \o GetEntry(pass[s].requests, id))
            /\ TokenPerCall(pass[s].requests \o TestConnection(pass[s].requests))

\* C23 witness: a pass has listed two pages and downloaded an export for
\* an entry
TwoPagesAndExportRequested ==
    \E s \in Slots :
        /\ pass[s].pc = "processing"
        /\ pass[s].totalPages = 2
        /\ Len(pass[s].requests) = 4
        /\ Len(pass[s].last.calls) = 2

\* C29: every page request of a pass carries the watermark the pass read
\* when it began as its since parameter, and no since parameter when that
\* watermark is 0; the stored watermark does not move while the pass runs.
SinceFollowsSnapshot ==
    \A s \in Running(pass) :
        /\ pass[s].since = lastTimestamp
        /\ \A k \in CallsOfKind(pass[s].requests, "page") :
              pass[s].requests[k].since
                = IF lastTimestamp = 0 THEN {} ELSE {lastTimestamp}

\* C29 witness: a pass that began with a non-zero watermark has sent its
\* page request and goes on to process the entry it listed
IncrementalPageRequested ==
    \E s \in Slots :
        /\ pass[s].pc = "processing"
        /\ pass[s].since > 0
        /\ pass[s].entries # <<>>
        /\ CallsOfKind(pass[s].requests, "page") # {}

\* the entry that pass s reconciles next
EntryAt(s) ==
    WallabagEntry(pass[s].entries[pass[s].i].id, pass[s].entries[pass[s].i].v)

\* a step in which pass s has updated an item for its next entry
Updates(s) == Reconciles(s) /\ pass'[s].updated = pass[s].updated + 1

\* a step in which pass s has created an item for its next entry
Creates(s) == Reconciles(s) /\ pass'[s].added = pass[s].added + 1

\* C24: after an update the item's tags are exactly the entry's tag labels,
\* plus Starred exactly when is_starred is 1; tags the item had before
\* (added by hand, or a stale Starred) are gone.
TagsReplacedOnUpdate ==
    [][\A s \in Slots :
          Updates(s)
          => LET entry == EntryAt(s)
                 item == library'[Target(s)]
             IN  /\ \A t \in entry.tags : t \in item.tags
                 /\ ("Starred" \in item.tags) <=> (entry.is_starred = 1)
                 /\ item.tags \ {"Starred"} = entry.tags]_vars

\* C24 witness: the item that was tagged by hand and starred has been
\* updated by entry 123 after its star was removed, and has no tag left
StaleTagsRemoved ==
    /\ Len(library) = 2
    /\ library[1].shortTitle = ToString(123)
    /\ library[1].tags = {}
    /\ \E s \in Slots : pass[s].last.outcome = "updated"

IsNamed(author) == Trim(author) # <<>>

\* one creator for each author that is not blank, in the order of the
\* list, without gaps, with the trimmed name as the family name
CreatorPerAuthor(authors) ==
    LET named == SelectSeq(authors, IsNamed)
    IN  Creators([k \in 1..Len(named) |-> Trim(named[k])])

\* C25: the item created for an entry has one creator for each non-empty
\* author string of the entry, in order, with the trimmed name as family
\* name: k non-empty authors give k creators.
CreatedWithCreatorPerAuthor ==
    [][\A s \in Slots :
          Creates(s)
          => library'[Len(library')].creators
               = CreatorPerAuthor(EntryAt(s).published_by)]_vars

\* C26: after an update the item's creators are exactly the non-empty
\* author strings of the entry, at contiguous positions, and none of the
\* creators it had before when the author list is empty.
CreatorsReplacedOnUpdate ==
    [][\A s \in Slots :
          Updates(s)
          => library'[Target(s)].creators
               = CreatorPerAuthor(EntryAt(s).published_by)]_vars

\* C27: while a pass is listing it changes no item and no file, whether
\* the page request succeeds or the listing fails; a pass processes only
\* after it has requested every page of the listing.
ListingPrecedesReconciliation ==
    [][\A s \in Slots :
          /\ pass[s].pc = "listing"
               => /\ library' = library
                  /\ tmpFiles' = tmpFiles
                  /\ pass[s].added = 0 /\ pass[s].updated = 0
          /\ pass'[s].pc = "processing"
               => Cardinality(CallsOfKind(pass'[s].requests, "page"))
                    = pass'[s].totalPages]_vars

\* C27 witness: a pass has listed two pages and then created the item of
\* the first entry in an empty library
CreatedAfterTwoPages ==
    \E s \in Slots :
        /\ pass[s].pc = "processing"
        /\ pass[s].totalPages = 2
        /\ pass[s].i = 2
        /\ pass[s].added = 1
        /\ Len(library) = 1

\* C30: when the search returns several items for an entry, the first is
\* updated, every other item stays as it is, no item is created and the
\* entry counts once, as updated.
OnlyFirstMatchUpdated ==
    [][\A s \in Slots :
          (/\ pass[s].pc = "processing"
           /\ pass'[s].pc = "processing"
           /\ pass'[s].i = pass[s].i + 1
           /\ pass'[s].errors = pass[s].errors
           /\ Cardinality(FindExistingZoteroItems(library,
                               pass[s].entries[pass[s].i].id)) > 1)
          => LET found == FindExistingZoteroItems(library,
                              pass[s].entries[pass[s].i].id)
             IN  /\ Len(library') = Len(library)
                 /\ \A k \in 1..Len(library) :
                       k # Min(found) => library'[k] = library[k]
                 /\ library'[Min(found)].shortTitle
                       = ToString(pass[s].entries[pass[s].i].id)
                 /\ pass'[s].updated = pass[s].updated + 1
                 /\ pass'[s].added = pass[s].added]_vars

\* C30 witness: entry 12 is found in both items of the library; the first
\* has been updated by it and the second is as it was
SecondMatchUntouched ==
    /\ Len(library) = 2
    /\ library[1].shortTitle = ToString(12)
    /\ library[2] = PriorLegacy
    /\ \E s \in Slots :
          /\ pass[s].last.outcome = "updated"
          /\ pass[s].i > 1
          /\ pass[s].entries[pass[s].i - 1].id = 12

\* ------------------------------------------------- one call at a time
\* the awaited calls of one export: token request, download, attachment
RECURSIVE ExportPlan(_)
ExportPlan(formats) ==
    IF formats = <<>> THEN <<>>
    ELSE <<[kind |-> "token", format |-> Head(formats)],
           [kind |-> "export", format |-> Head(formats)],
           [kind |-> "attach", format |-> Head(formats)]>>
         \o ExportPlan(Tail(formats))

\* the calls that pass s awaits, in program order, for the page it lists
\* (getEntries) or for the entry it processes (the search, the save of
\* the item, then the exports)
CallPlan(s) ==
    IF pass[s].pc = "listing"
    THEN <<[kind |-> "token", format |-> "none"],
           [kind |-> "page", format |-> "none"]>>
    ELSE <<[kind |-> "search", format |-> "none"],
           [kind |-> "save", format |-> "none"]>>
         \o ExportPlan(BranchFormats(s))

\* the page or the entry that pass s is at
Position(s) ==
    [pc |-> pass[s].pc,
     at |-> IF pass[s].pc = "listing" THEN pass[s].page ELSE pass[s].i]

AtWork(s) ==
    \/ pass[s].pc = "listing"
    \/ pass[s].pc = "processing" /\ pass[s].i <= Len(pass[s].entries)

\* a call that is made before the call before it has settled
StartCall_NoAwait(s) ==
    /\ AtWork(s)
    /\ pass[s].step < Len(CallPlan(s))
    /\ pass' = [pass EXCEPT
                   ![s].step = @ + 1,
                   ![s].inFlight = @ \cup {[call |-> CallPlan(s)[pass[s].step + 1],
                                            of |-> Position(s)]}]
    /\ UNCHANGED <<remoteUpdates, now, restarts, prefs, lastTimestamp,
                   syncTimer, intervals, syncInProgress, remote, library,
                   tmpFiles, faults, collections, importing, lastTrigger, settled>>

\* the pass makes its next call: every call is awaited, so the call
\* before it has settled
StartCall(s) ==
    /\ AtWork(s)
    /\ pass[s].inFlight = {}
    /\ pass[s].step < Len(CallPlan(s))
    /\ pass' = [pass EXCEPT
                   ![s].step = @ + 1,
                   ![s].inFlight = @ \cup {[call |-> CallPlan(s)[pass[s].step + 1],
                                            of |-> Position(s)]}]
    /\ UNCHANGED <<remoteUpdates, now, restarts, prefs, lastTimestamp,
                   syncTimer, intervals, syncInProgress, remote, library,
                   tmpFiles, faults, collections, importing, lastTrigger, settled>>

\* a call that is outstanding settles
SettleCall(s) ==
    /\ \E c \in pass[s].inFlight :
          pass' = [pass EXCEPT ![s].inFlight = @ \ {c}]
    /\ UNCHANGED <<remoteUpdates, now, restarts, prefs, lastTimestamp,
                   syncTimer, intervals, syncInProgress, remote, library,
                   tmpFiles, faults, collections, importing, lastTrigger, settled>>

\* the calls of the page or of the entry have all been made and settled
CallsDone(s) ==
    /\ AtWork(s)
    /\ pass[s].step = Len(CallPlan(s))
    /\ pass[s].inFlight = {}

\* the passes call by call, under the catalog, the clock and the
\* preferences of the initial state
CallNext ==
    \/ Startup
    \/ SyncNow
    \/ \E s \in Slots : StartCall(s)
    \/ \E s \in Slots : SettleCall(s)
    \/ \E s \in Slots, o \in {"ok", "auth", "transport"} :
          CallsDone(s) /\ FetchPage(s, o)
    \/ \E s \in Slots, ok \in BOOLEAN :
          /\ CallsDone(s)
          /\ ProcessEntry(s, ok, "none", "download")
    \/ \E s \in Slots : FinishPass(s)

CallSpec == Init /\ [][CallNext]_vars

\* C28: at most one network request or persistence call is outstanding at
\* any time, over all passes, and it belongs to the page or the entry the
\* pass is at: no call of entry i+1 is made before entry i, its
\* attachments included, has settled.
OneCallOutstanding ==
    /\ \A s \in Slots :
          /\ Cardinality(pass[s].inFlight) <= 1
          /\ \A c \in pass[s].inFlight : c.of = Position(s)
    /\ \A s, t \in Slots :
          s # t => pass[s].inFlight = {} \/ pass[t].inFlight = {}

\* C28 witness: the first entry has settled and the export download of
\* the second entry is outstanding
SecondEntryExportOutstanding ==
    \E s \in Slots :
        /\ pass[s].pc = "processing"
        /\ pass[s].i = 2
        /\ pass[s].last.outcome # "none"
        /\ \E c \in pass[s].inFlight : c.call.kind = "export"

\* the entries that pass s has counted
Counted(p) == p.added + p.updated + p.errors

\* a step in which pass s leaves processEntries and returns
Returns(s) ==
    /\ pass[s].pc = "processing"
    /\ pass'[s].pc = "free"
    /\ restarts' = restarts

\* C32: every iteration of the loop adds one to exactly one of added,
\* updated and errors, and when the pass returns the three add up to the
\* number of entries the listing returned.
TallyCountsEveryEntryOnce ==
    [][\A s \in Slots :
          /\ (/\ pass[s].pc = "processing"
              /\ pass'[s].pc = "processing"
              /\ pass'[s].i # pass[s].i)
             => /\ pass'[s].i = pass[s].i + 1
                /\ Counted(pass'[s]) = Counted(pass[s]) + 1
                /\ pass'[s].added >= pass[s].added
                /\ pass'[s].updated >= pass[s].updated
                /\ pass'[s].errors >= pass[s].errors
          /\ pass[s].pc = "processing" => Counted(pass[s]) = pass[s].i - 1
          /\ Returns(s) => Counted(pass[s]) = Len(pass[s].entries)]_vars

\* C32 witness: a pass has gone through the two entries it listed, one
\* added and one failed, and is about to return
TallyOfAddedAndFailed ==
    \E s \in Slots :
        /\ pass[s].pc = "processing"
        /\ Len(pass[s].entries) = 2
        /\ pass[s].i = 3
        /\ pass[s].added = 1
        /\ pass[s].errors = 1

\* C33: a pass that has reached processEntries returns, whatever number
\* of its entries failed, and sets the watermark to the current time; a
\* pass that ends while listing leaves the watermark as it was.
ErrorsDoNotHoldWatermark ==
    [][\A s \in Slots :
          /\ Returns(s)
               => /\ settled'.kind = "returned"
                  /\ lastTimestamp' = now
          /\ (/\ pass[s].pc = "listing"
              /\ pass'[s].pc = "free"
              /\ restarts' = restarts)
               => /\ settled'.kind = "thrown"
                  /\ lastTimestamp' = lastTimestamp]_vars

\* C33 witness: the one pass of this session began without a watermark,
\* so it listed both entries; the library is still empty, so both failed;
\* the pass has returned and the watermark is the current time
AllFailedWatermarkAdvanced ==
    /\ restarts = 0
    /\ settled = [kind |-> "returned", before |-> 0]
    /\ library = <<>>
    /\ lastTimestamp = now
    /\ lastTimestamp = 2

\* ------------------------------------------------- single-entry import
\* importWallabagEntry up to the first suspension of
\* getOrCreateWallabagCollection: the entry is fetched, the item is
\* saved, and the collection is looked up by name.  When there is one the
\* item is added to it and the exports are attached; when there is none a
\* new collection is made and its saveTx is awaited.  Every call of the
\* import succeeds.
ImportEntry(id, dl) ==
    /\ importing.pc = "idle"
    /\ Len(library) < MaxItems
    /\ LET entry == WallabagEntry(id, remote[id].v)
           kinds == AttachedKinds(CreateFormats(dl, prefs.formats), "none")
       IN  IF collections # {}
           THEN /\ library' = Append(library,
                                 WithAttachments(
                                     AddedToCollection(CreatedItem(entry),
                                                       {Min(collections)}, "ok"),
                                     kinds))
                /\ importing' = NoImport
           ELSE /\ library' = Append(library, CreatedItem(entry))
                /\ importing' = [pc |-> "saving", item |-> Len(library) + 1,
                                 downloadPdf |-> dl]
    /\ UNCHANGED <<now, restarts, remoteUpdates, prefs, lastTimestamp,
                   syncTimer, intervals, syncInProgress, pass, remote,
                   tmpFiles, faults, collections, lastTrigger, settled>>

\* the saveTx of the new collection resolves: the collection is in the
\* library, the item is added to it and the exports are attached
ImportCollectionSaved ==
    /\ importing.pc = "saving"
    /\ LET id == NewCollection(collections)
           kinds == AttachedKinds(CreateFormats(importing.downloadPdf,
                                                prefs.formats), "none")
       IN  /\ collections' = collections \cup {id}
           /\ library' = [library EXCEPT ![importing.item] =
                             WithAttachments(AddedToCollection(@, {id}, "ok"),
                                             kinds)]
    /\ importing' = NoImport
    /\ UNCHANGED <<now, restarts, remoteUpdates, prefs, lastTimestamp,
                   syncTimer, intervals, syncInProgress, pass, remote,
                   tmpFiles, faults, lastTrigger, settled>>

\* a sync pass and the single-entry import side by side, with a
\* collection step that may fail, under the catalog, the clock and the
\* preferences of the initial state
CollectionNext ==
    \/ Startup
    \/ SyncNow
    \/ \E s \in Slots, o \in {"ok", "auth", "transport"} : FetchPage(s, o)
    \/ \E s \in Slots, ok \in BOOLEAN, coll \in CollectionOutcomes :
          ReconcileEntry(s, ok, "none", "download", coll)
    \/ \E s \in Slots : FinishPass(s)
    \/ \E id \in EntryIds, dl \in BOOLEAN : ImportEntry(id, dl)
    \/ ImportCollectionSaved

CollectionSpec == Init /\ [][CollectionNext]_vars

\* C31: when the lookup, the creation or the assignment of the Wallabag
\* collection fails in the create branch, the item is in the library all
\* the same and the entry is counted as added, not as an error.
CollectionIsBestEffort ==
    [][\A s \in Slots :
          (/\ pass[s].pc = "processing"
           /\ pass'[s].pc = "processing"
           /\ pass'[s].i = pass[s].i + 1
           /\ pass'[s].last.collection \in CollectionOutcomes \ {"ok"})
          => /\ Len(library') = Len(library) + 1
             /\ library'[Len(library')].shortTitle
                   = ToString(pass[s].entries[pass[s].i].id)
             /\ library'[Len(library')].collections = {}
             /\ pass'[s].added = pass[s].added + 1
             /\ pass'[s].errors = pass[s].errors]_vars

\* C31 witness: the save of the new collection failed for the first
\* entry of a pass; its item is the one item of the library, in no
\* collection, and the entry is counted as added
AddedWithoutCollection ==
    \E s \in Slots :
        /\ pass[s].last.collection = "create"
        /\ pass[s].i = 2
        /\ pass[s].added = 1
        /\ pass[s].errors = 0
        /\ Len(library) = 1
        /\ library[1].collections = {}
        /\ collections = {}

\* C34: the library never holds more than one collection named Wallabag,
\* however a sync pass and a single-entry import interleave.
OneWallabagCollection == Cardinality(collections) <= 1

====
